---------------------------- MODULE Spec2Model ----------------------------
(***************************************************************************)
(* The accounts application of gig_platform_backend: the relational tables *)
(* of accounts/models.py and the request handlers of accounts/views.py and *)
(* accounts/serializers.py, each handler split at its database statements. *)
(* No handler opens a transaction (no transaction.atomic in the sources),  *)
(* so every ORM statement commits on its own and requests interleave       *)
(* between statements.  Lookups compare strings exactly (case-sensitive),  *)
(* as Django's exact lookup does on SQLite and PostgreSQL.                 *)
(***************************************************************************)
EXTENDS Integers, Sequences, FiniteSets, TLC

\* Primary keys are UUIDs, never reused: the model hands out 1, 2, ... and
\* stops registering once MaxUsers keys have been issued.
MaxUsers == 3

\* The request workers that may run handlers concurrently.
Procs == {"p1", "p2"}

\* SQL NULL for nullable text columns; a nullable foreign key holds 0.
NULL == "NULL"
NoUser == 0

VARIABLES
    users,            \* CustomUser rows, by primary key
    profiles,         \* UserProfile rows, by user (OneToOne: unique user_id)
    savedLocations,   \* SavedLocation rows
    workerProfiles,   \* WorkerProfile rows, by worker (OneToOne: unique)
    documents,        \* WorkerDocument rows
    adminProfiles,    \* AdminProfile rows, by admin (OneToOne: unique)
    nextId,           \* the next primary key to issue
    req               \* per request worker: the handler it runs and its locals

vars == <<users, profiles, savedLocations, workerProfiles, documents,
          adminProfiles, nextId, req>>

db == <<users, profiles, savedLocations, workerProfiles, documents,
        adminProfiles, nextId>>

-----------------------------------------------------------------------------
(* Values *)

\* CustomUser.Choice
USER == "User"
WORKER == "Worker"
ADMIN == "Admin"

\* VERIFICATION_STATUS
PENDING == "Pending"
VERIFIED == "Verified"
REJECTED == "Rejected"

\* An e-mail address: local part, domain, and whether it is written with
\* upper-case letters.
Email(l, d, u) == [local |-> l, domain |-> d, upper |-> u]
NoEmail == Email("", "", FALSE)

\* str.lower()
Lower(e) == [e EXCEPT !.upper = FALSE]

\* email.split("@")[0]
LocalPart(e) == e.local

Digits == {"0", "1", "2", "3", "4", "5", "6", "7", "8", "9"}

AllDigits(s) == \A i \in 1..Len(s) : s[i] \in Digits

\* phone_regex: ^\+?1?\d{9,15}$ over a string given as its characters
PhoneRegexOK(s) ==
    LET t == IF Len(s) > 0 /\ s[1] = "+" THEN Tail(s) ELSE s
    IN  \/ AllDigits(t) /\ Len(t) >= 9 /\ Len(t) <= 15
        \/ /\ Len(t) > 0
           /\ t[1] = "1"
           /\ AllDigits(Tail(t))
           /\ Len(Tail(t)) >= 9
           /\ Len(Tail(t)) <= 15

\* DecimalField values are kept in hundredths: 5.00 is 500.
DefaultRadius == 500
MinRadius == 20
MaxRadius == 2000

-----------------------------------------------------------------------------
(* Request inputs *)

PhoneA == <<"9", "8", "0", "0", "0", "0", "0", "0", "1">>
PhoneB == <<"+", "9", "8", "0", "0", "0", "0", "0", "0", "2">>
PhoneBad == <<"9", "8", "0">>
PhoneRoot == <<"1", "9", "8", "0", "0", "0", "0", "0", "0", "0">>

\* One mailbox written two ways, and a second mailbox with the same local part
OneMailbox == {Email("a", "x", FALSE), Email("a", "x", TRUE)}
TwoMailboxes == OneMailbox \cup {Email("a", "y", FALSE)}

\* The body of POST register/: the serializer's fields, and the fields a
\* caller may add that are not the serializer's (user_type, is_verified).
RegisterInputs(emails) ==
    [email : emails, phone_number : {PhoneA, PhoneB},
     password : {"pw"}, password2 : {"pw"},
     user_type : {NULL}, is_verified : {FALSE}]
    \cup
    [email : emails, phone_number : {PhoneA, PhoneB},
     password : {"pw"}, password2 : {"pw"},
     user_type : {ADMIN}, is_verified : {TRUE}]
    \cup
    [email : {Email("a", "x", FALSE)}, phone_number : {PhoneBad},
     password : {"pw"}, password2 : {"pw"},
     user_type : {NULL}, is_verified : {FALSE}]
    \cup
    [email : {Email("a", "x", FALSE)}, phone_number : {PhoneB},
     password : {"pw"}, password2 : {"pw2"},
     user_type : {NULL}, is_verified : {FALSE}]

-----------------------------------------------------------------------------
(* Requests *)

Idle ==
    [kind |-> "idle", pc |-> "idle", result |-> "",
     user |-> NoUser, user_type |-> "",
     email |-> NoEmail, phone_number |-> <<>>, new_type |-> "",
     username |-> "", counter |-> 0,
     category |-> "", doc_type |-> "", doc_number |-> "",
     obs |-> <<>>]

\* A handler's response: the outcome stays, with the account and the e-mail
\* the request was about, until the worker takes its next request.  obs is
\* what the request found when it arrived, kept for the properties below.
Done(r, res) ==
    [Idle EXCEPT !.kind = r.kind, !.pc = "done", !.result = res,
                 !.user = r.user, !.email = r.email, !.obs = r.obs]

Running(p) == req[p].pc \notin {"idle", "done"}

-----------------------------------------------------------------------------
(* register/ : RegisterView, RegisterSerializer *)

\* UniqueValidator on a unique model field: queryset.filter(field=value)
EmailTaken(e) == \E u \in DOMAIN users : users[u].email = e
PhoneTaken(ph) == \E u \in DOMAIN users : users[u].phone_number = ph
UsernameTaken(n) == \E u \in DOMAIN users : users[u].username = n

\* serializer.is_valid(): the field validators, then validate()
RegisterValid(data) ==
    /\ ~EmailTaken(data.email)
    /\ PhoneRegexOK(data.phone_number)
    /\ ~PhoneTaken(data.phone_number)
    /\ data.password = data.password2

\* A create() that passed the caller's user_type on to create_user
RegisterUserTypeFromInput(data) ==
    IF data.user_type = NULL THEN USER ELSE data.user_type

\* The user_type create() hands to create_user.
RegisterUserType(data) == USER

\* The row create_user inserts; is_verified takes the column default.
NewUser(r) ==
    [email |-> r.email, phone_number |-> r.phone_number,
     username |-> r.username, user_type |-> r.new_type,
     is_verified |-> FALSE, is_staff |-> FALSE]

\* UserProfile.objects.create(user=user): every other column at its default
NewUserProfile ==
    [current_latitude |-> NULL, current_longitude |-> NULL,
     current_address |-> NULL, preferred_radius_km |-> DefaultRadius]

\* The unique indexes of the user table
UserInsertConflicts(row) ==
    \/ EmailTaken(row.email)
    \/ PhoneTaken(row.phone_number)
    \/ UsernameTaken(row.username)

\* The request arrives and is validated; create() then lower-cases the e-mail
\* and starts the username search at the local part.
RegisterValidate(p, emails) ==
    /\ req[p].pc = "idle"
    /\ nextId <= MaxUsers
    /\ \E data \in RegisterInputs(emails) :
         LET dup == \/ \E u \in DOMAIN users :
                         Lower(users[u].email) = Lower(data.email)
                    \/ PhoneTaken(data.phone_number)
             r0 == [Idle EXCEPT !.kind = "register",
                                !.email = Lower(data.email),
                                !.obs = <<dup, data.user_type>>]
         IN  IF RegisterValid(data)
             THEN req' = [req EXCEPT ![p] =
                     [r0 EXCEPT !.pc = "username",
                                !.phone_number = data.phone_number,
                                !.new_type = RegisterUserType(data),
                                !.username = LocalPart(Lower(data.email)),
                                !.counter = 1]]
             ELSE req' = [req EXCEPT ![p] = Done(r0, "ValidationError")]
    /\ UNCHANGED db

\* One turn of: while CustomUser.objects.filter(username=username).exists()
RegisterUsername(p) ==
    /\ req[p].kind = "register"
    /\ req[p].pc = "username"
    /\ IF UsernameTaken(req[p].username)
       THEN req' = [req EXCEPT
                ![p].username = LocalPart(req[p].email) \o ToString(req[p].counter),
                ![p].counter = req[p].counter + 1]
       ELSE req' = [req EXCEPT ![p].pc = "create_user"]
    /\ UNCHANGED db

\* CustomUser.objects.create_user(...): one INSERT
RegisterCreateUser(p) ==
    /\ req[p].kind = "register"
    /\ req[p].pc = "create_user"
    /\ IF UserInsertConflicts(NewUser(req[p]))
       THEN /\ req' = [req EXCEPT ![p] = Done(req[p], "IntegrityError")]
            /\ UNCHANGED db
       ELSE /\ users' = [u \in DOMAIN users \cup {nextId} |->
                           IF u = nextId THEN NewUser(req[p]) ELSE users[u]]
            /\ nextId' = nextId + 1
            /\ req' = [req EXCEPT ![p].pc = "create_profile",
                                  ![p].user = nextId]
            /\ UNCHANGED <<profiles, savedLocations, workerProfiles,
                           documents, adminProfiles>>

\* UserProfile.objects.create(user=user): one INSERT
RegisterCreateProfile(p) ==
    /\ req[p].kind = "register"
    /\ req[p].pc = "create_profile"
    /\ IF req[p].user \notin DOMAIN users \/ req[p].user \in DOMAIN profiles
       THEN /\ req' = [req EXCEPT ![p] = Done(req[p], "IntegrityError")]
            /\ UNCHANGED db
       ELSE /\ profiles' = [u \in DOMAIN profiles \cup {req[p].user} |->
                              IF u = req[p].user THEN NewUserProfile
                              ELSE profiles[u]]
            /\ req' = [req EXCEPT ![p] = Done(req[p], "ok")]
            /\ UNCHANGED <<users, savedLocations, workerProfiles,
                           documents, adminProfiles, nextId>>

-----------------------------------------------------------------------------
(* Authenticated requests *)

\* hasattr(user, "worker_profile"): a query for the row with worker_id = u
HasWorkerProfile(u) == u \in DOMAIN workerProfiles

\* permission_classes = [IsAuthenticated]: the bearer token resolves to a row
\* of the user table, loaded once; request.user keeps the values read here.
Authenticate(p, u, kind, r0) ==
    /\ req[p].pc = "idle"
    /\ u \in DOMAIN users
    /\ req' = [req EXCEPT ![p] =
                 [r0 EXCEPT !.kind = kind, !.pc = "run", !.user = u,
                            !.user_type = users[u].user_type]]
    /\ UNCHANGED db

-----------------------------------------------------------------------------
(* me/ : MeView *)

\* get_object() is request.user and UserSerializer renders it: a read of the
\* row the token resolves to, which writes nothing.
MeRetrieve(p, u) ==
    /\ req[p].pc = "idle"
    /\ u \in DOMAIN users
    /\ UNCHANGED vars

-----------------------------------------------------------------------------
(* become-worker/ : BecomeWorkerView, BecomeWorkerSerializer *)

ServiceCategory == {"Plumber", "Electrician", "Cleaner", "Carpenter"}

\* Menus of categories a request may carry; "Painter" is not a choice.
OneCategory == {"Plumber", "Painter"}
TwoCategories == {"Plumber", "Cleaner", "Painter"}

\* WorkerProfile.objects.create(worker=user, **validated_data)
NewWorkerProfile(category) ==
    [verification_status |-> PENDING, verified_at |-> NULL,
     verified_by |-> NoUser, rejection_reason |-> NULL,
     service_category |-> category]

BecomeWorkerBegin(p, u, categories) ==
    \E c \in categories :
        Authenticate(p, u, "become_worker",
            [Idle EXCEPT !.category = c,
                         !.obs = <<users[u].user_type, HasWorkerProfile(u), c>>])

\* A create() with no guard at all
BecomeWorkerNeverRefused(r) == FALSE

\* A create() without the Admin guard
BecomeWorkerRefusedNoAdminGuard(r) == HasWorkerProfile(r.user)

\* The two guards of create(): the role of request.user, then hasattr
BecomeWorkerRefused(r) ==
    \/ r.user_type = ADMIN
    \/ HasWorkerProfile(r.user)

\* serializer.is_valid() (the category is a ChoiceField), then the guards
BecomeWorkerCheck(p) ==
    /\ req[p].kind = "become_worker"
    /\ req[p].pc = "run"
    /\ IF req[p].category \notin ServiceCategory \/ BecomeWorkerRefused(req[p])
       THEN req' = [req EXCEPT ![p] = Done(req[p], "ValidationError")]
       ELSE req' = [req EXCEPT ![p].pc = "create_worker"]
    /\ UNCHANGED db

\* The INSERT had worker been a ForeignKey: no unique index on worker_id, so
\* a second row for the account is accepted and is the one found afterwards
BecomeWorkerCreateNoUniqueIndex(p) ==
    /\ req[p].kind = "become_worker"
    /\ req[p].pc = "create_worker"
    /\ IF req[p].user \notin DOMAIN users
       THEN /\ req' = [req EXCEPT ![p] = Done(req[p], "IntegrityError")]
            /\ UNCHANGED db
       ELSE /\ workerProfiles' =
                 [u \in DOMAIN workerProfiles \cup {req[p].user} |->
                    IF u = req[p].user THEN NewWorkerProfile(req[p].category)
                    ELSE workerProfiles[u]]
            /\ req' = [req EXCEPT ![p].pc = "save_role"]
            /\ UNCHANGED <<users, profiles, savedLocations, documents,
                           adminProfiles, nextId>>

\* WorkerProfile.objects.create: one INSERT, under the unique index on
\* worker_id and its foreign key to the user table
BecomeWorkerCreate(p) ==
    /\ req[p].kind = "become_worker"
    /\ req[p].pc = "create_worker"
    /\ IF req[p].user \notin DOMAIN users \/ HasWorkerProfile(req[p].user)
       THEN /\ req' = [req EXCEPT ![p] = Done(req[p], "IntegrityError")]
            /\ UNCHANGED db
       ELSE /\ workerProfiles' =
                 [u \in DOMAIN workerProfiles \cup {req[p].user} |->
                    IF u = req[p].user THEN NewWorkerProfile(req[p].category)
                    ELSE workerProfiles[u]]
            /\ req' = [req EXCEPT ![p].pc = "save_role"]
            /\ UNCHANGED <<users, profiles, savedLocations, documents,
                           adminProfiles, nextId>>

\* user.user_type = WORKER; user.save(update_fields=["user_type"]): one
\* UPDATE, which raises DatabaseError when it matches no row
BecomeWorkerSaveRole(p) ==
    /\ req[p].kind = "become_worker"
    /\ req[p].pc = "save_role"
    /\ IF req[p].user \notin DOMAIN users
       THEN /\ req' = [req EXCEPT ![p] = Done(req[p], "DatabaseError")]
            /\ UNCHANGED db
       ELSE /\ users' = [users EXCEPT ![req[p].user].user_type = WORKER]
            /\ req' = [req EXCEPT ![p] = Done(req[p], "ok")]
            /\ UNCHANGED <<profiles, savedLocations, workerProfiles,
                           documents, adminProfiles, nextId>>

-----------------------------------------------------------------------------
(* worker/documents/upload/ : WorkerDocumentUploadView *)

DocumentType == {"Citizenship", "Driver's License", "NIN Card"}

\* Menus of (document_type, document_number) an upload may carry
OneDocument == {<<"Citizenship", "n1">>}
TwoTypes == {<<"Citizenship", "n1">>, <<"NIN Card", "n1">>}
TwoTypesTwoNumbers == TwoTypes \cup {<<"Citizenship", "n2">>, <<"NIN Card", "n2">>}

\* unique_together = [["worker_profile", "document_type", "document_number"]]
DocumentExists(w, t, n) ==
    \E d \in documents :
        d.worker_profile = w /\ d.document_type = t /\ d.document_number = n

\* WorkerDocument.objects.create(worker_profile=..., **validated_data)
NewDocument(w, t, n) ==
    [worker_profile |-> w, document_type |-> t, document_number |-> n,
     verification_status |-> PENDING, verified_at |-> NULL,
     verified_by |-> NoUser, rejection_reason |-> NULL]

UploadBegin(p, u, docs) ==
    \E d \in docs :
        Authenticate(p, u, "upload",
            [Idle EXCEPT !.doc_type = d[1], !.doc_number = d[2],
                         !.obs = <<users[u].user_type, HasWorkerProfile(u),
                                   DocumentExists(u, d[1], d[2])>>])

\* A create() without the role guard
UploadRefusedNoRoleGuard(r) == ~HasWorkerProfile(r.user)

\* The two guards of create(): hasattr, then the role of request.user
UploadRefused(r) ==
    \/ ~HasWorkerProfile(r.user)
    \/ r.user_type # WORKER

UploadCheck(p) ==
    /\ req[p].kind = "upload"
    /\ req[p].pc = "run"
    /\ IF UploadRefused(req[p])
       THEN req' = [req EXCEPT ![p] = Done(req[p], "ValidationError")]
       ELSE req' = [req EXCEPT ![p].pc = "create_document"]
    /\ UNCHANGED db

\* WorkerDocument.objects.create: one INSERT, under the unique index on the
\* triple and the foreign key to the worker profile
UploadCreate(p) ==
    /\ req[p].kind = "upload"
    /\ req[p].pc = "create_document"
    /\ IF \/ ~HasWorkerProfile(req[p].user)
          \/ DocumentExists(req[p].user, req[p].doc_type, req[p].doc_number)
       THEN /\ req' = [req EXCEPT ![p] = Done(req[p], "IntegrityError")]
            /\ UNCHANGED db
       ELSE /\ documents' = documents \cup
                 {NewDocument(req[p].user, req[p].doc_type, req[p].doc_number)}
            /\ req' = [req EXCEPT ![p] = Done(req[p], "ok")]
            /\ UNCHANGED <<users, profiles, savedLocations, workerProfiles,
                           adminProfiles, nextId>>

-----------------------------------------------------------------------------
(* profile/delete/ : DeleteUserView *)

\* on_delete=models.SET_NULL on verified_by
ClearVerifier(row, u) ==
    IF row.verified_by = u THEN [row EXCEPT !.verified_by = NoUser] ELSE row

\* verified_by declared on_delete=CASCADE: the verified rows go with the verifier
WorkerProfilesVerifierCascade(u) ==
    [w \in {x \in DOMAIN workerProfiles \ {u} :
                workerProfiles[x].verified_by # u} |-> workerProfiles[w]]

\* WorkerProfile rows after user u is deleted: worker is CASCADE
WorkerProfilesAfterDelete(u) ==
    [w \in DOMAIN workerProfiles \ {u} |-> ClearVerifier(workerProfiles[w], u)]

\* WorkerDocument rows after user u is deleted: worker_profile is CASCADE
DocumentsAfterDelete(u) ==
    {ClearVerifier(d, u) : d \in {e \in documents : e.worker_profile # u}}

DeleteBegin(p, u) == Authenticate(p, u, "delete", Idle)

\* user.delete(): the collector deletes the row and what cascades from it in
\* one transaction; deleting a row that is already gone deletes nothing.
DeleteUser(p) ==
    LET u == req[p].user
    IN  /\ req[p].kind = "delete"
        /\ req[p].pc = "run"
        /\ users' = [v \in DOMAIN users \ {u} |-> users[v]]
        /\ profiles' = [v \in DOMAIN profiles \ {u} |-> profiles[v]]
        /\ savedLocations' = {l \in savedLocations : l.user_profile # u}
        /\ workerProfiles' = WorkerProfilesAfterDelete(u)
        /\ documents' = DocumentsAfterDelete(u)
        /\ adminProfiles' = [v \in DOMAIN adminProfiles \ {u} |-> adminProfiles[v]]
        /\ req' = [req EXCEPT ![p] =
                     [Done(req[p], "ok") EXCEPT !.obs =
                        <<u \in DOMAIN users,
                          \E w \in DOMAIN workerProfiles \ {u} :
                              workerProfiles[w].verified_by = u,
                          \E d \in documents :
                              d.worker_profile # u /\ d.verified_by = u>>]]
        /\ UNCHANGED nextId

-----------------------------------------------------------------------------
(* profile/ : UserProfileView.  UserProfileSerializer is imported by        *)
(* views.py and is not in serializers.py: a partial update of the radius,   *)
(* under the validators of the model field.                                 *)

RadiusInputs == {MinRadius - 1, MaxRadius}

RadiusValid(r) == r >= MinRadius /\ r <= MaxRadius

\* get_object() is request.user.user_profile; the update saves the fields
\* given and keeps the others.  Refused when the account has no profile row
\* or the radius is out of range.
UserProfileUpdate(p, u, r) ==
    /\ req[p].pc = "idle"
    /\ u \in DOMAIN users
    /\ u \in DOMAIN profiles
    /\ RadiusValid(r)
    /\ profiles' = [profiles EXCEPT ![u].preferred_radius_km = r]
    /\ UNCHANGED <<users, savedLocations, workerProfiles, documents,
                   adminProfiles, nextId, req>>

-----------------------------------------------------------------------------
(* worker/profile/ : WorkerProfileView.  WorkerProfileSerializer is         *)
(* imported by views.py and is not in serializers.py: a partial update of   *)
(* the service attributes.                                                  *)

\* get_object() is None without a worker profile, else user.worker_profile;
\* the update saves the fields given and keeps the others.
WorkerProfileUpdate(p, u, c) ==
    /\ req[p].pc = "idle"
    /\ u \in DOMAIN users
    /\ HasWorkerProfile(u)
    /\ c \in ServiceCategory
    /\ workerProfiles' = [workerProfiles EXCEPT ![u].service_category = c]
    /\ UNCHANGED <<users, profiles, savedLocations, documents, adminProfiles,
                   nextId, req>>

-----------------------------------------------------------------------------
(* The admin site: admin.site.register(Model, ModelAdmin).  A staff user    *)
(* edits any field of a row through the change form, which saves in one     *)
(* transaction.                                                             *)

\* What the change form of a WorkerProfile or WorkerDocument is given here for
\* the verification columns: verified or rejected by a staff account at a
\* time, or back to pending.
Staff == {u \in DOMAIN users : users[u].is_staff}

VerificationInputs ==
    [verification_status : {VERIFIED}, verified_at : {"t1"},
     verified_by : Staff, rejection_reason : {NULL}]
    \cup
    [verification_status : {REJECTED}, verified_at : {"t1"},
     verified_by : Staff, rejection_reason : {"reason"}]
    \cup
    [verification_status : {PENDING}, verified_at : {NULL},
     verified_by : {NoUser}, rejection_reason : {NULL}]

SetVerification(row, v) ==
    [row EXCEPT !.verification_status = v.verification_status,
                !.verified_at = v.verified_at,
                !.verified_by = v.verified_by,
                !.rejection_reason = v.rejection_reason]

\* WorkerProfileAdmin: staff account a saves the change form of one worker
\* profile.  The form has no clean() and the ModelAdmin no save_model(), so
\* the columns are saved as given.
AdminChangeWorkerProfile(a, w, v) ==
    /\ a \in Staff
    /\ w \in DOMAIN workerProfiles
    /\ workerProfiles' = [workerProfiles EXCEPT ![w] = SetVerification(@, v)]
    /\ UNCHANGED <<users, profiles, savedLocations, documents, adminProfiles,
                   nextId, req>>

\* WorkerDocumentAdmin: staff account a saves the change form of one document
AdminChangeDocument(a, d, v) ==
    /\ a \in Staff
    /\ d \in documents
    /\ documents' = (documents \ {d}) \cup {SetVerification(d, v)}
    /\ UNCHANGED <<users, profiles, savedLocations, workerProfiles,
                   adminProfiles, nextId, req>>

LocationLabels == {"Home"}

\* SavedLocationAdmin: the add form, whose validation includes
\* unique_together = [["user_profile", "label"]]
AdminAddSavedLocation(u, label) ==
    /\ Staff # {}
    /\ u \in DOMAIN profiles
    /\ ~\E l \in savedLocations : l.user_profile = u /\ l.label = label
    /\ savedLocations' = savedLocations \cup
                           {[user_profile |-> u, label |-> label]}
    /\ UNCHANGED <<users, profiles, workerProfiles, documents, adminProfiles,
                   nextId, req>>

\* A rejection saved with the reason left blank (blank=True on the column)
BlankRejections ==
    [verification_status : {REJECTED}, verified_at : {"t1"},
     verified_by : Staff, rejection_reason : {""}]

\* AdminProfileAdmin: staff account a saves the change form of an admin
\* profile with the can_verify_workers box as given and the rest as it was.
AdminChangeAdminProfile(a, t, flag) ==
    /\ a \in Staff
    /\ t \in DOMAIN adminProfiles
    /\ adminProfiles' = [adminProfiles EXCEPT ![t].can_verify_workers = flag]
    /\ UNCHANGED <<users, profiles, savedLocations, workerProfiles, documents,
                   nextId, req>>

AdminSite ==
    \/ \E a \in Staff, w \in DOMAIN workerProfiles, v \in VerificationInputs :
           AdminChangeWorkerProfile(a, w, v)
    \/ \E a \in Staff, d \in documents, v \in VerificationInputs :
           AdminChangeDocument(a, d, v)
    \/ \E u \in DOMAIN profiles, label \in LocationLabels :
           AdminAddSavedLocation(u, label)

\* The verification work of the admin site: the change forms of worker
\* profiles, documents and admin profiles, blank rejection reasons included
AdminVerification ==
    \/ \E a \in Staff, w \in DOMAIN workerProfiles,
          v \in VerificationInputs \cup BlankRejections :
           AdminChangeWorkerProfile(a, w, v)
    \/ \E a \in Staff, d \in documents,
          v \in VerificationInputs \cup BlankRejections :
           AdminChangeDocument(a, d, v)
    \/ \E a \in Staff, t \in DOMAIN adminProfiles, flag \in BOOLEAN :
           AdminChangeAdminProfile(a, t, flag)

-----------------------------------------------------------------------------
(* Common steps *)

\* The worker process dies, or loses its database connection, between two
\* statements: nothing is rolled back, since nothing ran in a transaction.
Crash(p) ==
    /\ Running(p)
    /\ req' = [req EXCEPT ![p] = Done(req[p], "Crashed")]
    /\ UNCHANGED db

\* The response has been sent; the worker is free for the next request.
Respond(p) ==
    /\ req[p].pc = "done"
    /\ req' = [req EXCEPT ![p] = Idle]
    /\ UNCHANGED db

-----------------------------------------------------------------------------
(* The initial database: one staff account provisioned outside the API. *)

RootUser ==
    [email |-> Email("root", "x", FALSE), phone_number |-> PhoneRoot,
     username |-> "root", user_type |-> ADMIN, is_verified |-> TRUE,
     is_staff |-> TRUE]

Init ==
    /\ users = (1 :> RootUser)
    /\ profiles = (1 :> NewUserProfile)
    /\ savedLocations = {}
    /\ workerProfiles = <<>>
    /\ documents = {}
    /\ adminProfiles = (1 :> [can_verify_workers |-> TRUE,
                              can_manage_users |-> FALSE,
                              total_verifications |-> 0])
    /\ nextId = 2
    /\ req = [p \in Procs |-> Idle]

\* One step of a handler of request worker p, over the given menus of inputs
Handler(p, emails, categories, docs) ==
    \/ RegisterValidate(p, emails)
    \/ RegisterUsername(p)
    \/ RegisterCreateUser(p)
    \/ RegisterCreateProfile(p)
    \/ \E u \in DOMAIN users : BecomeWorkerBegin(p, u, categories)
    \/ BecomeWorkerCheck(p)
    \/ BecomeWorkerCreate(p)
    \/ BecomeWorkerSaveRole(p)
    \/ \E u \in DOMAIN users : UploadBegin(p, u, docs)
    \/ UploadCheck(p)
    \/ UploadCreate(p)
    \/ \E u \in DOMAIN users : DeleteBegin(p, u)
    \/ DeleteUser(p)
    \/ Respond(p)

\* The read and the two partial updates
Accessors(p, categories) ==
    \/ \E u \in DOMAIN users : MeRetrieve(p, u)
    \/ \E u \in DOMAIN users, r \in RadiusInputs : UserProfileUpdate(p, u, r)
    \/ \E u \in DOMAIN users, c \in categories : WorkerProfileUpdate(p, u, c)

\* The handlers under concurrent request workers that may die mid-request
Next ==
    \E p \in Procs :
        \/ Handler(p, OneMailbox, OneCategory, TwoTypes)
        \/ Crash(p)

Spec == Init /\ [][Next]_vars

\* Every operation of the public API, under concurrent request workers
NextApi ==
    \E p \in Procs :
        \/ Handler(p, OneMailbox, OneCategory, TwoTypes)
        \/ Accessors(p, OneCategory)

SpecApi == Init /\ [][NextApi]_vars

\* One request worker, two mailboxes, and the admin site
NextAdmin ==
    \/ Handler("p1", TwoMailboxes, OneCategory, OneDocument)
    \/ AdminSite

SpecAdmin == Init /\ [][NextAdmin]_vars

\* One request worker, one mailbox, and the verification work of the admin site
NextVerify ==
    \/ Handler("p1", OneMailbox, OneCategory, OneDocument)
    \/ AdminVerification

SpecVerify == Init /\ [][NextVerify]_vars

\* The steps of register/ alone
Registration(p, emails) ==
    \/ RegisterValidate(p, emails)
    \/ RegisterUsername(p)
    \/ RegisterCreateUser(p)
    \/ RegisterCreateProfile(p)
    \/ Respond(p)

\* Concurrent registrations over two mailboxes that share their local part
NextRegister == \E p \in Procs : Registration(p, TwoMailboxes)

SpecRegister == Init /\ [][NextRegister]_vars

\* The steps of become-worker/ alone
Onboarding(p, categories) ==
    \/ \E u \in DOMAIN users : BecomeWorkerBegin(p, u, categories)
    \/ BecomeWorkerCheck(p)
    \/ BecomeWorkerCreate(p)
    \/ BecomeWorkerSaveRole(p)

\* Concurrent registrations and become-worker requests, over two categories
NextOnboarding ==
    \E p \in Procs :
        \/ Registration(p, TwoMailboxes)
        \/ Onboarding(p, TwoCategories)

SpecOnboarding == Init /\ [][NextOnboarding]_vars

-----------------------------------------------------------------------------
(* Properties *)

\* The responses that carry a structured error: DRF renders a
\* serializers.ValidationError as a 400 with field messages.  IntegrityError
\* and DatabaseError are exceptions of the database layer that no handler
\* catches.
StructuredErrors == {"ValidationError"}

Finished(p, kind) == req[p].kind = kind /\ req[p].pc = "done"

\* Request worker p takes a step of a request of this kind.
StepOf(p, kind) == req[p].kind = kind /\ req'[p] # req[p]

\* C1: an account has role Worker exactly when it has a WorkerProfile, in
\* every state in which no become-worker request on it is still running
\* (so also after such a request was interrupted between its two writes).
C1_RoleMatchesWorkerRecord ==
    \A u \in DOMAIN users :
        (~\E p \in Procs : req[p].kind = "become_worker" /\ Running(p)
                           /\ req[p].user = u)
        => (users[u].user_type = WORKER <=> HasWorkerProfile(u))

\* C2: register leaves no partial state: every account that no running
\* register is still creating has a profile, and a register that failed or
\* was interrupted left no account behind.
C2_RegisterLeavesNoPartialState ==
    /\ \A u \in DOMAIN users :
           (~\E p \in Procs : req[p].kind = "register" /\ Running(p)
                              /\ req[p].user = u)
           => u \in DOMAIN profiles
    /\ \A p \in Procs :
           Finished(p, "register") /\ req[p].result # "ok"
           => req[p].user \notin DOMAIN users

\* C3: whatever user_type or is_verified the caller sends, the account a
\* register creates has role User and is not verified, and the register that
\* succeeds has created exactly one profile, for that account, with radius
\* 5.00 and no coordinates.
C3_RegisterCreatesPlainUser ==
    [][\A p \in Procs :
         StepOf(p, "register") =>
           /\ \A u \in DOMAIN users' \ DOMAIN users :
                 /\ u = req'[p].user
                 /\ users'[u].user_type = "User"
                 /\ users'[u].is_verified = FALSE
           /\ \A u \in DOMAIN profiles' \ DOMAIN profiles : u = req[p].user
           /\ req'[p].result = "ok" =>
                 /\ req[p].user \in DOMAIN users'
                 /\ DOMAIN profiles' = DOMAIN profiles \cup {req[p].user}
                 /\ req[p].user \notin DOMAIN profiles
                 /\ profiles'[req[p].user].preferred_radius_km = 500
                 /\ profiles'[req[p].user].current_latitude = NULL
                 /\ profiles'[req[p].user].current_longitude = NULL
      ]_vars

\* A register that sent user_type = Admin has succeeded.
C3_Witness ==
    \E p \in Procs :
        /\ Finished(p, "register")
        /\ req[p].result = "ok"
        /\ req[p].obs[2] = ADMIN
        /\ req[p].user \in DOMAIN users
        /\ req[p].user \in DOMAIN profiles

\* C4: a register whose e-mail, compared without case, or whose phone number
\* was already an account's when it arrived ends with a structured
\* validation error (unless the worker died).
C4_DuplicateIsValidationError ==
    \A p \in Procs :
        Finished(p, "register") /\ req[p].obs[1] /\ req[p].result # "Crashed"
        => req[p].result \in StructuredErrors

\* C5: of two registers for the same e-mail that both arrived before either
\* account existed, when one has succeeded the other (unless its worker died)
\* has failed with a structured conflict error.
C5_RaceLoserSeesConflict ==
    \A p, q \in Procs :
        /\ p # q
        /\ Finished(p, "register") /\ Finished(q, "register")
        /\ req[p].email = req[q].email
        /\ ~req[p].obs[1] /\ ~req[q].obs[1]
        /\ req[p].result = "ok"
        /\ req[q].result # "Crashed"
        => req[q].result \in StructuredErrors

\* C6: a become-worker request that arrived for an Admin account, or for an
\* account that already had a WorkerProfile, never succeeds, and no step of
\* it changes the user table or the worker profiles.
C6_RefusedBecomeWorker ==
    [][\A p \in Procs :
         /\ StepOf(p, "become_worker")
         /\ (req[p].obs[1] = "Admin" \/ req[p].obs[2])
         => /\ req'[p].result # "ok"
            /\ users' = users
            /\ workerProfiles' = workerProfiles
      ]_vars

\* One request for an Admin and one for an account that already had a
\* WorkerProfile have both been refused.
C6_Witness ==
    \E p, q \in Procs :
        /\ Finished(p, "become_worker") /\ Finished(q, "become_worker")
        /\ req[p].obs[1] = ADMIN /\ req[p].result = "ValidationError"
        /\ req[q].obs[1] # ADMIN /\ req[q].obs[2]
        /\ req[q].result = "ValidationError"

\* C7: in every step of the public API, an account whose role changes goes
\* from User to Worker, in the step that ends a become-worker request of that
\* account with success; and no account appears with role Admin.
C7_RoleOnlyUserToWorker ==
    [][/\ \A u \in DOMAIN users \cap DOMAIN users' :
            users'[u].user_type # users[u].user_type =>
              /\ users[u].user_type = "User"
              /\ users'[u].user_type = "Worker"
              /\ \E p \in Procs :
                    /\ req[p].kind = "become_worker" /\ req[p].user = u
                    /\ req[p].pc # "done"
                    /\ req'[p].pc = "done" /\ req'[p].result = "ok"
       /\ \A u \in DOMAIN users' \ DOMAIN users :
            users'[u].user_type = "User"
      ]_vars

\* An account has become a Worker through a become-worker request that
\* ended with success.
C7_Witness ==
    \E p \in Procs :
        /\ Finished(p, "become_worker")
        /\ req[p].result = "ok"
        /\ req[p].obs[1] = USER
        /\ req[p].user \in DOMAIN users
        /\ users[req[p].user].user_type = WORKER

\* C8: an upload succeeds only if the account had a WorkerProfile and role
\* Worker when the request arrived; the successful step adds exactly one
\* document, of the caller's own worker profile, Pending, with no verification
\* time, verifier or rejection reason; every other step of an upload leaves
\* the documents as they were.
C8_UploadGuardsAndDefaults ==
    [][\A p \in Procs :
         StepOf(p, "upload") =>
           IF req'[p].result = "ok"
           THEN /\ req[p].obs[1] = "Worker"
                /\ req[p].obs[2]
                /\ \E d \in documents' \ documents :
                      /\ documents' = documents \cup {d}
                      /\ d.worker_profile = req[p].user
                      /\ d.verification_status = "Pending"
                      /\ d.verified_at = NULL
                      /\ d.verified_by = NoUser
                      /\ d.rejection_reason = NULL
           ELSE documents' = documents
      ]_vars

\* One upload has succeeded and one, for an account that was not a Worker,
\* has been refused.
C8_Witness ==
    \E p, q \in Procs :
        /\ Finished(p, "upload") /\ req[p].result = "ok"
        /\ Finished(q, "upload") /\ req[q].obs[1] # WORKER
        /\ req[q].result = "ValidationError"

\* C9: no two documents share (worker, type, number), and an upload whose
\* (type, number) the worker already had when it arrived ends with a
\* structured conflict error (unless the worker process died).
C9_DuplicateUploadIsConflictError ==
    /\ \A d, e \in documents :
          /\ d.worker_profile = e.worker_profile
          /\ d.document_type = e.document_type
          /\ d.document_number = e.document_number
          => d = e
    /\ \A p \in Procs :
          Finished(p, "upload") /\ req[p].obs[3] /\ req[p].result # "Crashed"
          => req[p].result \in StructuredErrors

\* C10: the step that deletes account u removes u, its profile, saved
\* locations, worker profile, documents and admin profile; every row of
\* another account stays as it was, except that a verified_by that named u
\* becomes absent.
C10_DeleteCascadesAndClears ==
    [][\A p \in Procs :
         /\ req[p].kind = "delete" /\ req[p].pc = "run"
         /\ req'[p].pc = "done" /\ req'[p].result = "ok"
         => LET u == req[p].user
                Kept(f) == DOMAIN f \ {u}
            IN  /\ DOMAIN users' = Kept(users)
                /\ \A v \in Kept(users) : users'[v] = users[v]
                /\ DOMAIN profiles' = Kept(profiles)
                /\ \A v \in Kept(profiles) : profiles'[v] = profiles[v]
                /\ DOMAIN adminProfiles' = Kept(adminProfiles)
                /\ \A v \in Kept(adminProfiles) :
                      adminProfiles'[v] = adminProfiles[v]
                /\ savedLocations' =
                      {l \in savedLocations : l.user_profile # u}
                /\ DOMAIN workerProfiles' = Kept(workerProfiles)
                /\ \A w \in Kept(workerProfiles) :
                      workerProfiles'[w] =
                        [workerProfiles[w] EXCEPT !.verified_by =
                            IF @ = u THEN NoUser ELSE @]
                /\ \A d \in documents' : d.worker_profile # u
                /\ \A d \in documents :
                      d.worker_profile # u =>
                        [d EXCEPT !.verified_by =
                            IF @ = u THEN NoUser ELSE @] \in documents'
                /\ Cardinality(documents') =
                      Cardinality({d \in documents : d.worker_profile # u})
      ]_vars

\* An account has been deleted that a worker profile and a document of another
\* account named as verifier; both rows are still there, without verifier.
C10_Witness ==
    \E p \in Procs :
        /\ Finished(p, "delete")
        /\ req[p].obs = <<TRUE, TRUE, TRUE>>
        /\ \E w \in DOMAIN workerProfiles :
              /\ workerProfiles[w].verified_by = NoUser
              /\ workerProfiles[w].verified_at # NULL
        /\ \E d \in documents :
              d.verified_by = NoUser /\ d.verified_at # NULL

\* can_verify_workers of the admin profile of account a
CanVerifyWorkers(a) ==
    a \in DOMAIN adminProfiles /\ adminProfiles[a].can_verify_workers

\* C11: a verify or reject by an admin whose can_verify_workers is false, and
\* a reject with an empty reason, are refused: the step in which the admin
\* saves such a change leaves every worker profile, every document and every
\* admin profile (so every total_verifications) as it was.
C11_RefusedVerificationChangesNothing ==
    [][\A a \in Staff, v \in VerificationInputs \cup BlankRejections :
         /\ v.verification_status \in {"Verified", "Rejected"}
         /\ \/ ~CanVerifyWorkers(a)
            \/ v.verification_status = "Rejected" /\ v.rejection_reason = ""
         /\ \/ \E w \in DOMAIN workerProfiles : AdminChangeWorkerProfile(a, w, v)
            \/ \E d \in documents : AdminChangeDocument(a, d, v)
         => /\ workerProfiles' = workerProfiles
            /\ documents' = documents
            /\ adminProfiles' = adminProfiles
      ]_vars

\* C12: every worker profile and every document has a verification time
\* exactly when it has a verifier, and has neither while it is Pending, in
\* every state (so also after the verifier's account was deleted).
C12_VerifiedAtIffVerifiedBy ==
    \A row \in {workerProfiles[w] : w \in DOMAIN workerProfiles} \cup documents :
        /\ row.verified_at # NULL <=> row.verified_by # NoUser
        /\ row.verification_status = "Pending"
             => row.verified_at = NULL /\ row.verified_by = NoUser

\* C13: no two accounts ever share a username, and a register that reaches
\* its INSERT with an e-mail and a phone number no account has (so one that can
\* only collide on the username derived from the local part) inserts its
\* account, under a username of its own, whatever other registers run beside
\* it.
C13_SharedLocalPartGetsOwnHandle ==
    [][/\ \A u, v \in DOMAIN users' :
            u # v => users'[u].username # users'[v].username
       /\ \A p \in Procs :
            /\ req[p].kind = "register" /\ req[p].pc = "create_user"
            /\ req'[p] # req[p]
            /\ ~EmailTaken(req[p].email)
            /\ ~PhoneTaken(req[p].phone_number)
            => /\ req'[p].pc = "create_profile"
               /\ req'[p].user \in DOMAIN users' \ DOMAIN users
      ]_vars

\* Two finished become-worker requests on the same account, both of which
\* arrived with a valid category while the account was no Admin and had no
\* WorkerProfile
ConcurrentBecomeWorker(p, q) ==
    /\ p # q
    /\ Finished(p, "become_worker") /\ Finished(q, "become_worker")
    /\ req[p].user = req[q].user
    /\ \A r \in {req[p], req[q]} :
          r.obs[1] # ADMIN /\ ~r.obs[2] /\ r.obs[3] \in ServiceCategory

\* Exactly one of the two has succeeded, and the account is a Worker with the
\* WorkerProfile the successful one supplied.
OneBecomeWorkerWon ==
    \A p, q \in Procs :
        ConcurrentBecomeWorker(p, q) =>
          /\ (req[p].result = "ok") # (req[q].result = "ok")
          /\ req[p].result = "ok" =>
                /\ req[p].user \in DOMAIN users
                /\ users[req[p].user].user_type = WORKER
                /\ HasWorkerProfile(req[p].user)
                /\ workerProfiles[req[p].user] = NewWorkerProfile(req[p].obs[3])

\* C14: of two concurrent become-worker requests on the same account, which
\* is no Admin and has no WorkerProfile, exactly one succeeds; once both have
\* finished the account has role Worker and the WorkerProfile of the
\* successful request; and no step puts a second WorkerProfile in the place
\* of one an account already has.
C14_ConcurrentBecomeWorkerOneWins ==
    [][/\ OneBecomeWorkerWon'
       /\ \A u \in DOMAIN workerProfiles :
            u \in DOMAIN workerProfiles' /\ workerProfiles'[u] = workerProfiles[u]
      ]_vars

\* Two requests with different categories raced past the guards: one has
\* succeeded and the other was stopped by the unique index.
C14_Witness ==
    \E p, q \in Procs :
        /\ ConcurrentBecomeWorker(p, q)
        /\ req[p].obs[3] # req[q].obs[3]
        /\ req[p].result = "ok"
        /\ req[q].result = "IntegrityError"
        /\ workerProfiles[req[p].user].service_category = req[p].obs[3]

=============================================================================
